---- MODULE Spec2Model ----
(***************************************************************************)
(* A model of the ietools library: Decision (decision criteria under       *)
(* uncertainty), compareAlt (worth of a cash flow and Newton-Raphson IRR)  *)
(* and BCRatio (benefit-cost ratio).                                       *)
(*                                                                         *)
(* Numbers.  The library computes on Python floats.  The model computes on *)
(* exact rationals [n |-> numerator, d |-> denominator > 0] in lowest      *)
(* terms, so that equal numbers are equal values.  Rounding is not         *)
(* modelled.  An absent argument (Python None) is the empty sequence and a *)
(* present one is a one-element sequence.                                  *)
(***************************************************************************)
EXTENDS Integers, Sequences, FiniteSets, TLC

VARIABLES
    \* ---- Decision ----
    crit,       \* self.crit: the requested criterion names, in order
    alts,       \* self.alts: the alternative labels
    prob,       \* self.prob: the probability of each state
    payoff,     \* self.payoff: alternatives x states
    attrs,      \* self.regret and the attributes fit() has set so far (name -> value)
    results_,   \* self.results_: criterion name -> <<decision, payoff>>
    fit_pc,     \* "constructed", "running", "returned", or the exception raised
    fit_i,      \* position of the for loop of fit() in self.crit
    \* ---- compareAlt and its irr() call ----
    cf,         \* self.cf: the cash flow series, period 0 first
    eq,         \* self.eq: [conv |-> convention, fract |-> 1 or 100]
    irr_args,   \* [guess, max_iter, threshold] of the call
    itr,        \* irr(): the iteration count
    r,          \* irr(): the rate estimate (absent before the first one)
    npv,        \* irr(): the present worth the while test reads
    irr_pc,     \* "INITIAL", "ITERATING", "CONVERGED", "DIVERGED" or the exception raised
    irr_ret,    \* what irr() returned (absent while it has not)
    updates,    \* history: how many Newton updates of r the call has made
    \* ---- BCRatio ----
    bcr_args,   \* the arguments of BCRatio(...): benefit, cost, rate, ben_rate,
                \* cost_rate, convention, fractional
    bc,         \* the attributes __init__ has set: benefit, cost, ben_rate,
                \* cost_rate, eq (the equivalence of both compareAlt objects)
    warned,     \* how many warnings warnings.warn has issued
    bcr_pc,     \* "calling", "constructed", "returned", or the exception raised
    bcr_ret,    \* what bcr() returned (absent while it has not)
    \* ---- cfCommon and the list objects it works on ----
    heap,       \* the list objects: identity -> contents
    cash_flows, \* the dict passed to cfCommon: for each key, in insertion
                \* order, the identity of the list it is bound to
    given,      \* history: the contents of the list of each key at the call
    horizon,    \* cfCommon: n, the horizon of each key
    lcm,        \* cfCommon: the least common multiple of the horizons
    common_i,   \* cfCommon: position of the for loop in the keys
    common_pc,  \* "none", "calling", "looping" or "returned"
    cf_ref,     \* the identity of the list self.cf of the compareAlt is (0: none)
    cf_built,   \* history: the contents of self.cf when the compareAlt was built
    worth,      \* what the last npv, euaw or nfw call returned, with its name
    \* ---- equivalence factors ----
    fac_args,   \* [conv, fract, i, g, n] of the equivalence object and the call
    fac_ret     \* the last factor called, with what it returned

decVars == <<crit, alts, prob, payoff, attrs, results_, fit_pc, fit_i>>
irrVars == <<cf, eq, irr_args, itr, r, npv, irr_pc, irr_ret, updates>>
bcrVars == <<bcr_args, bc, warned, bcr_pc, bcr_ret>>
commonVars == <<heap, cash_flows, given, horizon, lcm, common_i, common_pc,
                cf_ref, cf_built, worth>>
facVars == <<fac_args, fac_ret>>
vars == <<decVars, irrVars, bcrVars, commonVars, facVars>>

-----------------------------------------------------------------------------
(* Bounds of the model *)

\* payoffs are drawn from 0..MaxPay
MaxPay == 2
\* number of alternatives (rows of the payoff matrix)
NAlts == 2
\* probabilities are drawn from {0/ProbDen, ..., ProbDen/ProbDen}
ProbDen == 2
\* longest criteria list of SpecCrit
MaxCrit == 2

\* the states (columns) of the payoff matrix
StateIdx == 1..2

\* cash flows are drawn from -MaxCash..MaxCash
MaxCash == 1
\* longest cash flow series
MaxLen == 3
\* largest max_iter passed to irr()
MaxIter == 2
\* largest number of periods passed to an equivalence factor
MaxPeriods == 2

-----------------------------------------------------------------------------
(* Exact rational arithmetic *)

Abs(x) == IF x < 0 THEN 0 - x ELSE x

RECURSIVE GCD(_, _)
GCD(a, b) == IF b = 0 THEN a ELSE GCD(b, a % b)

\* n/d in lowest terms with a positive denominator (d # 0)
Rat(n, d) ==
    LET g == GCD(Abs(n), Abs(d))
        s == IF d < 0 THEN 0 - 1 ELSE 1
    IN  [n |-> s * (n \div g), d |-> s * (d \div g)]

RInt(k) == [n |-> k, d |-> 1]
RZero == RInt(0)
RNeg(a) == [n |-> 0 - a.n, d |-> a.d]
\* the sum over the least common denominator
RAdd(a, b) ==
    LET g == GCD(a.d, b.d)
    IN  Rat(a.n * (b.d \div g) + b.n * (a.d \div g), (a.d \div g) * b.d)
RSub(a, b) == RAdd(a, RNeg(b))
\* the product, common factors cancelled before multiplying
RMul(a, b) ==
    LET g == GCD(Abs(a.n), b.d)
        h == GCD(Abs(b.n), a.d)
    IN  Rat((a.n \div g) * (b.n \div h), (a.d \div h) * (b.d \div g))
\* a / b for b # 0
RDiv(a, b) == RMul(a, Rat(b.d, b.n))
RAbs(a) == [n |-> Abs(a.n), d |-> a.d]
RLe(a, b) == a.n * b.d <= b.n * a.d
RLt(a, b) == a.n * b.d < b.n * a.d

RECURSIVE RSum(_)
RSum(s) == IF s = <<>> THEN RZero ELSE RAdd(Head(s), RSum(Tail(s)))

\* b ** k for a natural k
RECURSIVE RPowNat(_, _)
RPowNat(b, k) == IF k = 0 THEN RInt(1) ELSE RMul(b, RPowNat(b, k - 1))
\* the square root of a rational that is the square of a rational
ISqrt(k) == CHOOSE x \in 0..k : x * x = k
RSqrt(a) == [n |-> ISqrt(a.n), d |-> ISqrt(a.d)]
\* b ** (h / 2) for an integer h; b # 0 when h < 0
RPowHalf(b, h) ==
    LET a == Abs(h)
        p == IF a % 2 = 0 THEN RPowNat(b, a \div 2)
             ELSE RMul(RPowNat(b, a \div 2), RSqrt(b))
    IN  IF h >= 0 THEN p ELSE RDiv(RInt(1), p)

\* Python None and a present value
None == <<>>
Some(x) == <<x>>

-----------------------------------------------------------------------------
(* numpy reductions used by Decision.fit *)

Range(s) == {s[i] : i \in DOMAIN s}

\* ndarray.max() of a vector
SeqMax(s) == CHOOSE x \in Range(s) : \A y \in Range(s) : RLe(y, x)
\* ndarray.min() of a vector
SeqMin(s) == CHOOSE x \in Range(s) : \A y \in Range(s) : RLe(x, y)
\* argmax changed to return the last index holding the maximum
ArgMaxLast(s) == CHOOSE i \in DOMAIN s :
                     s[i] = SeqMax(s) /\ \A j \in DOMAIN s : j > i => s[j] # SeqMax(s)
\* ndarray.argmax(): the first index holding the maximum
ArgMax(s) == CHOOSE i \in DOMAIN s :
                 s[i] = SeqMax(s) /\ \A j \in DOMAIN s : j < i => s[j] # SeqMax(s)
\* ndarray.argmin(): the first index holding the minimum
ArgMin(s) == CHOOSE i \in DOMAIN s :
                 s[i] = SeqMin(s) /\ \A j \in DOMAIN s : j < i => s[j] # SeqMin(s)

\* m.max(axis = 1): the maximum of each row
RowMax(m) == [a \in DOMAIN m |-> SeqMax(m[a])]
\* m.min(axis = 1): the minimum of each row
RowMin(m) == [a \in DOMAIN m |-> SeqMin(m[a])]
\* m[:, j]: one column
Column(m, j) == [a \in DOMAIN m |-> m[a][j]]
\* m.max(axis = 0): the maximum of each column
ColMax(m) == [j \in DOMAIN m[1] |-> SeqMax(Column(m, j))]
\* the regret taken against the maximum of each row instead of each column
RegretByRow(m) == [a \in DOMAIN m |-> [j \in DOMAIN m[a] |-> RSub(SeqMax(m[a]), m[a][j])]]
\* payoff.max(axis = 0) - payoff, broadcast over the rows
RegretMatrix(m) == [a \in DOMAIN m |-> [j \in DOMAIN m[a] |-> RSub(ColMax(m)[j], m[a][j])]]
\* payoff @ prob: the dot product of every row with the probabilities
DotProd(m, p) == [a \in DOMAIN m |-> RSum([j \in DOMAIN p |-> RMul(m[a][j], p[j])])]

-----------------------------------------------------------------------------
(* Decision *)

\* the criteria fit() knows
Supported == {"maxmax", "maxmin", "regret", "maxlik", "ev"}
\* the default of the criteria parameter
DefaultCriteria == <<"maxmax", "maxmin", "regret", "maxlik", "ev">>
\* a name fit() does not know
Unknown == "bogus"

\* _read_payoff of an ndarray: the last row is the probabilities, the rows
\* before it the payoffs, and the alternatives are labelled 0..m-1
ReadPayoff(grid) ==
    [alts   |-> [a \in 1..(Len(grid) - 1) |-> a - 1],
     prob   |-> grid[Len(grid)],
     payoff |-> SubSeq(grid, 1, Len(grid) - 1)]

\* _build_dict: results_.update({criteria: (decision, payoff)})
build_dict(results, criterion, decision, pf) ==
    (criterion :> <<decision, pf>>) @@ results

\* the decision and the payoff of each criterion, as fit() computes them
maxmax_dec(al, m) == al[ArgMax(RowMax(m))]
\* maxmax_pf changed to the smallest of the row maxima
maxmax_pf_smallest(m) == SeqMin(RowMax(m))
maxmax_pf(m) == SeqMax(RowMax(m))
maxmin_dec(al, m) == al[ArgMax(RowMin(m))]
maxmin_pf(m) == SeqMax(RowMin(m))
regret_dec(al, m) == al[ArgMin(RowMax(RegretMatrix(m)))]
regret_pf(m) == SeqMin(RowMax(RegretMatrix(m)))
mle_dec(al, m, p) == al[ArgMax(Column(m, ArgMax(p)))]
\* mle_pf changed to read the column of the least likely state
mle_pf_least(m, p) == SeqMax(Column(m, ArgMin(p)))
mle_pf(m, p) == SeqMax(Column(m, ArgMax(p)))
\* ev_dec changed to the alternative of the smallest expected value
ev_dec_smallest(al, m, p) == al[ArgMin(DotProd(m, p))]
ev_dec(al, m, p) == al[ArgMax(DotProd(m, p))]
ev_pf(m, p) == SeqMax(DotProd(m, p))

\* Decision.__init__(grid, criteria)
DecisionInit(grid, criteria) ==
    /\ crit = criteria
    /\ alts = ReadPayoff(grid).alts
    /\ prob = ReadPayoff(grid).prob
    /\ payoff = ReadPayoff(grid).payoff
    /\ attrs = ("regret" :> None)
    /\ results_ = <<>>
    /\ fit_pc = "constructed"
    /\ fit_i = 0

\* no Decision object exists
NoDecision ==
    /\ crit = <<>>
    /\ alts = <<>>
    /\ prob = <<>>
    /\ payoff = <<>>
    /\ attrs = <<>>
    /\ results_ = <<>>
    /\ fit_pc = "none"
    /\ fit_i = 0

\* fit() is called on the constructed object
FitCall ==
    /\ fit_pc = "constructed"
    /\ fit_pc' = "running"
    /\ fit_i' = 1
    /\ UNCHANGED <<crit, alts, prob, payoff, attrs, results_>>
    /\ UNCHANGED <<irrVars, bcrVars, commonVars, facVars>>

\* the loop of fit() is at criterion c
AtCriterion(c) ==
    /\ fit_pc = "running"
    /\ fit_i <= Len(crit)
    /\ crit[fit_i] = c

\* one pass of the loop that stores dec and pf under the attributes da and pa
\* and adds the entry <<dec, pf>> for the criterion
StoreCriterion(c, da, pa, dec, pf) ==
    /\ attrs' = (da :> dec) @@ (pa :> pf) @@ attrs
    /\ results_' = build_dict(results_, c, dec, pf)
    /\ fit_i' = fit_i + 1
    /\ UNCHANGED <<crit, alts, prob, payoff, fit_pc>>
    /\ UNCHANGED <<irrVars, bcrVars, commonVars, facVars>>

FitMaxmax ==
    /\ AtCriterion("maxmax")
    /\ StoreCriterion("maxmax", "maxmax_dec_", "maxmax_pf_",
                      maxmax_dec(alts, payoff), maxmax_pf(payoff))

FitMaxmin ==
    /\ AtCriterion("maxmin")
    /\ StoreCriterion("maxmin", "maxmin_dec_", "maxmin_pf_",
                      maxmin_dec(alts, payoff), maxmin_pf(payoff))

FitRegret ==
    /\ AtCriterion("regret")
    /\ attrs' = ("regret_" :> RegretMatrix(payoff))
                @@ ("regret_dec_" :> regret_dec(alts, payoff))
                @@ ("regret_pf_" :> regret_pf(payoff)) @@ attrs
    /\ results_' = build_dict(results_, "regret",
                              regret_dec(alts, payoff), regret_pf(payoff))
    /\ fit_i' = fit_i + 1
    /\ UNCHANGED <<crit, alts, prob, payoff, fit_pc>>
    /\ UNCHANGED <<irrVars, bcrVars, commonVars, facVars>>

FitMaxlik ==
    /\ AtCriterion("maxlik")
    /\ StoreCriterion("maxlik", "mle_dec_", "mle_pf_",
                      mle_dec(alts, payoff, prob), mle_pf(payoff, prob))

\* the ev branch sets ev_dec_ and ev_pf_ and then passes self.mle_pf_ to
\* _build_dict; reading mle_pf_ before the maxlik branch has set it raises
\* AttributeError
FitEv ==
    /\ AtCriterion("ev")
    /\ attrs' = ("ev_dec_" :> ev_dec(alts, payoff, prob))
                @@ ("ev_pf_" :> ev_pf(payoff, prob)) @@ attrs
    /\ IF "mle_pf_" \in DOMAIN attrs
       THEN /\ results_' = build_dict(results_, "ev",
                                      ev_dec(alts, payoff, prob), attrs["mle_pf_"])
            /\ fit_i' = fit_i + 1
            /\ UNCHANGED fit_pc
       ELSE /\ fit_pc' = "AttributeError"
            /\ UNCHANGED <<results_, fit_i>>
    /\ UNCHANGED <<crit, alts, prob, payoff>>
    /\ UNCHANGED <<irrVars, bcrVars, commonVars, facVars>>

\* the else branch: raise ValueError
FitUnknown ==
    /\ fit_pc = "running"
    /\ fit_i <= Len(crit)
    /\ crit[fit_i] \notin Supported
    /\ fit_pc' = "ValueError"
    /\ UNCHANGED <<crit, alts, prob, payoff, attrs, results_, fit_i>>
    /\ UNCHANGED <<irrVars, bcrVars, commonVars, facVars>>

\* the loop is exhausted and fit() returns
FitReturn ==
    /\ fit_pc = "running"
    /\ fit_i > Len(crit)
    /\ fit_pc' = "returned"
    /\ UNCHANGED <<crit, alts, prob, payoff, attrs, results_, fit_i>>
    /\ UNCHANGED <<irrVars, bcrVars, commonVars, facVars>>

\* the payoff values, the probabilities and the grids of the model
PayoffValues == {RInt(v) : v \in 0..MaxPay}
ProbValues == {Rat(w, ProbDen) : w \in 0..ProbDen}
PayoffRows == [StateIdx -> PayoffValues]
\* the probabilities of the states sum to 1
ProbRows == {p \in [StateIdx -> ProbValues] : RSum(p) = RInt(1)}
Grids == {pm \o <<p>> : pm \in [1..NAlts -> PayoffRows], p \in ProbRows}

\* the criteria lists of Spec: the default, and the default followed by a
\* name fit() does not know
DefaultLists == {DefaultCriteria, DefaultCriteria \o <<Unknown>>}
\* the criteria lists of SpecCrit: every list of 1..MaxCrit names
CritLists == UNION {[1..k -> Supported \cup {Unknown}] : k \in 1..MaxCrit}

NextFit ==
    \/ FitCall
    \/ FitMaxmax
    \/ FitMaxmin
    \/ FitRegret
    \/ FitMaxlik
    \/ FitEv
    \/ FitUnknown
    \/ FitReturn

-----------------------------------------------------------------------------
(* equivalence and compareAlt *)

\* equivalence.__init__: fractional = True gives fract 1.0, False gives 100.0
Fract(fractional) == IF fractional THEN 1 ELSE 100

\* equivalence.PgivenF(i, n) raises ZeroDivisionError: zero to a negative power
PgivenFRaises(e, i, n) ==
    /\ RAdd(RInt(1), RDiv(i, RInt(e.fract))) = RZero
    /\ n >= 1

\* equivalence.PgivenF(i, n): (1 + i/fract) ** -n under the end-of-period
\* convention and (1 + i/fract) ** -(n - 0.5) under the mid-period one
PgivenF(e, i, n) ==
    LET base == RAdd(RInt(1), RDiv(i, RInt(e.fract)))
    IN  IF e.conv = "end" THEN RPowHalf(base, 0 - 2 * n)
        ELSE RPowHalf(base, 0 - (2 * n - 1))

\* compareAlt._ppv(cf, interest): the discounted flow of every period; the
\* flow at index k of the model is the flow of period k - 1
ppvRaises(e, flows, interest) ==
    \E k \in DOMAIN flows : PgivenFRaises(e, interest, k - 1)
ppvOf(e, flows, interest) ==
    [k \in DOMAIN flows |-> RMul(flows[k], PgivenF(e, interest, k - 1))]

\* compareAlt.npv(interest): the sum of the discounted flows
npvRaises(e, flows, interest) == ppvRaises(e, flows, interest)
npvOf(e, flows, interest) == RSum(ppvOf(e, flows, interest))

\* compareAlt._dnpv(ppv, interest): -1/(interest+1) * sum(period * ppv[period])
dnpvOf(ppv, interest) ==
    RMul(RDiv(RInt(0 - 1), RAdd(interest, RInt(1))),
         RSum([k \in DOMAIN ppv |-> RMul(RInt(k - 1), ppv[k])]))

\* compareAlt.__init__(cash_flow, convention, fractional)
CompareAltInit(cash_flow, convention, fractional) ==
    /\ cf = cash_flow
    /\ eq = [conv |-> convention, fract |-> Fract(fractional)]

\* no compareAlt object exists
NoCompareAlt ==
    /\ cf = <<>>
    /\ eq = [conv |-> "end", fract |-> 1]
    /\ irr_args = [guess |-> None, max_iter |-> 0, threshold |-> RZero]
    /\ itr = 0
    /\ r = None
    /\ npv = None
    /\ irr_pc = "none"
    /\ irr_ret = None
    /\ updates = 0

\* a call irr(guess, max_iter, threshold) is about to start
IrrCall(guess, max_iter, threshold) ==
    /\ irr_args = [guess |-> guess, max_iter |-> max_iter, threshold |-> threshold]
    /\ itr = 0
    /\ r = None
    /\ npv = None
    /\ irr_pc = "INITIAL"
    /\ irr_ret = None
    /\ updates = 0

\* the sum of cf[1:]
RestSum(flows) == RSum(Tail(flows))

\* the first estimate: the guess, or abs(cf[0]) / sum(cf[1:]) * fract
FirstRate(e, flows, guess) ==
    IF guess = None
    THEN RMul(RDiv(RAbs(flows[1]), RestSum(flows)), RInt(e.fract))
    ELSE guess[1]

\* lines 275-280: itr = 0, the first estimate and its present worth
IrrStart ==
    /\ irr_pc = "INITIAL"
    /\ IF irr_args.guess = None /\ RestSum(cf) = RZero
       THEN /\ irr_pc' = "ZeroDivisionError"
            /\ UNCHANGED <<r, npv>>
       ELSE LET r0 == FirstRate(eq, cf, irr_args.guess) IN
            /\ r' = Some(r0)
            /\ IF ppvRaises(eq, cf, r0)
               THEN /\ irr_pc' = "ZeroDivisionError"
                    /\ UNCHANGED npv
               ELSE /\ npv' = Some(npvOf(eq, cf, r0))
                    /\ irr_pc' = "ITERATING"
    /\ UNCHANGED <<cf, eq, irr_args, itr, irr_ret, updates>>
    /\ UNCHANGED <<decVars, bcrVars, commonVars, facVars>>

\* the while test of line 281 holds
LoopTest ==
    /\ irr_pc = "ITERATING"
    /\ RLt(irr_args.threshold, RAbs(npv[1]))

\* lines 282-286: the iteration count exceeds max_iter; the return statement
\* adds the float r to a str, which raises TypeError
IrrCap ==
    /\ LoopTest
    /\ itr + 1 > irr_args.max_iter
    /\ itr' = itr + 1
    /\ irr_pc' = "TypeError"
    /\ UNCHANGED <<cf, eq, irr_args, r, npv, irr_ret, updates>>
    /\ UNCHANGED <<decVars, bcrVars, commonVars, facVars>>

\* the new rate of line 295: r - npv/dnpv
NewtonStep(rate, pw, dpw) == RSub(rate, RDiv(pw, dpw))

\* lines 282-295: one pass of the loop body below the cap
IrrNewton ==
    /\ LoopTest
    /\ itr + 1 <= irr_args.max_iter
    /\ itr' = itr + 1
    /\ IF ppvRaises(eq, cf, r[1])
       THEN /\ irr_pc' = "ZeroDivisionError"
            /\ UNCHANGED <<r, npv, updates>>
       ELSE LET ppv  == ppvOf(eq, cf, r[1])
                dnpv == dnpvOf(ppv, RDiv(r[1], RInt(eq.fract)))
            IN  /\ npv' = Some(RSum(ppv))
                /\ IF dnpv = RZero
                   THEN /\ irr_pc' = "ZeroDivisionError"
                        /\ UNCHANGED <<r, updates>>
                   ELSE /\ r' = Some(NewtonStep(r[1], RSum(ppv), dnpv))
                        /\ updates' = updates + 1
                        /\ UNCHANGED irr_pc
    /\ UNCHANGED <<cf, eq, irr_args, irr_ret>>
    /\ UNCHANGED <<decVars, bcrVars, commonVars, facVars>>

\* lines 281, 298-300: the while test fails and irr() returns r
IrrReturn ==
    /\ irr_pc = "ITERATING"
    /\ ~ RLt(irr_args.threshold, RAbs(npv[1]))
    /\ irr_pc' = "CONVERGED"
    /\ irr_ret' = r
    /\ UNCHANGED <<cf, eq, irr_args, itr, r, npv, updates>>
    /\ UNCHANGED <<decVars, bcrVars, commonVars, facVars>>

NextIrr ==
    \/ IrrStart
    \/ IrrCap
    \/ IrrNewton
    \/ IrrReturn

\* the inputs of SpecIrr
CashValues == {RInt(v) : v \in (0 - MaxCash)..MaxCash}
CashFlows == UNION {[1..k -> CashValues] : k \in 1..MaxLen}
\* no guess, or a guess of 0, 1/2 or 1
Guesses == {None, Some(RZero), Some(Rat(1, 2)), Some(RInt(1))}
Thresholds == {Rat(1, 2), RInt(1)}

-----------------------------------------------------------------------------
(* BCRatio *)

\* Python truth of an optional number: None and zero are false
Truthy(x) == x # None /\ x[1] # RZero

\* lines 358-370: the rates __init__ stores, the shared rate when it is true
ResolveRates(rate, ben_rate, cost_rate) ==
    IF Truthy(rate)
    THEN [ben_rate |-> rate, cost_rate |-> rate]
    ELSE [ben_rate |-> ben_rate, cost_rate |-> cost_rate]

\* line 358: the test that guards warnings.warn
WarnTest(rate, ben_rate, cost_rate) ==
    (Truthy(rate) /\ Truthy(ben_rate)) \/ (Truthy(rate) /\ Truthy(cost_rate))

\* line 372: the test that guards raise ValueError, on the arguments
RaiseTest(ben_rate, cost_rate) ==
    (Truthy(ben_rate) /\ ~ Truthy(cost_rate)) \/ (Truthy(cost_rate) /\ ~ Truthy(ben_rate))

\* a call BCRatio(benefit, cost, rate, ben_rate, cost_rate, convention, fractional)
BCRatioCall(a) ==
    /\ bcr_args = a
    /\ bc = <<>>
    /\ warned = 0
    /\ bcr_pc = "calling"
    /\ bcr_ret = None

\* no BCRatio object exists
NoBCRatio ==
    /\ bcr_args = <<>>
    /\ bc = <<>>
    /\ warned = 0
    /\ bcr_pc = "none"
    /\ bcr_ret = None

\* BCRatio.__init__
BCRatioInit ==
    /\ bcr_pc = "calling"
    /\ warned' = IF WarnTest(bcr_args.rate, bcr_args.ben_rate, bcr_args.cost_rate)
                 THEN warned + 1 ELSE warned
    /\ LET rates == ResolveRates(bcr_args.rate, bcr_args.ben_rate, bcr_args.cost_rate)
           set   == [benefit |-> bcr_args.benefit, cost |-> bcr_args.cost,
                     ben_rate |-> rates.ben_rate, cost_rate |-> rates.cost_rate]
       IN  IF RaiseTest(bcr_args.ben_rate, bcr_args.cost_rate)
           THEN /\ bc' = set
                /\ bcr_pc' = "ValueError"
           ELSE /\ bc' = set @@ [eq |-> [conv |-> bcr_args.convention,
                                         fract |-> Fract(bcr_args.fractional)]]
                /\ bcr_pc' = "constructed"
    /\ UNCHANGED <<bcr_args, bcr_ret>>
    /\ UNCHANGED <<decVars, irrVars, commonVars, facVars>>

\* compareAlt.npv(interest) raises: TypeError on the rate None (1.0 + None/fract,
\* once the series has a flow), ZeroDivisionError from PgivenF
npvError(e, flows, interest) ==
    IF flows = <<>> THEN "no"
    ELSE IF interest = None THEN "TypeError"
    ELSE IF npvRaises(e, flows, interest[1]) THEN "ZeroDivisionError"
    ELSE "no"

\* BCRatio.bcr(): the benefits' npv at ben_rate over the costs' npv at cost_rate
BCRatioBcr ==
    /\ bcr_pc = "constructed"
    /\ LET eb == npvError(bc.eq, bc.benefit, bc.ben_rate)
           ec == npvError(bc.eq, bc.cost, bc.cost_rate)
       IN  IF eb # "no" THEN bcr_pc' = eb /\ UNCHANGED bcr_ret
           ELSE IF ec # "no" THEN bcr_pc' = ec /\ UNCHANGED bcr_ret
           ELSE LET pb == IF bc.benefit = <<>> THEN RZero
                          ELSE npvOf(bc.eq, bc.benefit, bc.ben_rate[1])
                    pc == IF bc.cost = <<>> THEN RZero
                          ELSE npvOf(bc.eq, bc.cost, bc.cost_rate[1])
                IN  IF pc = RZero
                    THEN bcr_pc' = "ZeroDivisionError" /\ UNCHANGED bcr_ret
                    ELSE bcr_pc' = "returned" /\ bcr_ret' = Some(RDiv(pb, pc))
    /\ UNCHANGED <<bcr_args, bc, warned>>
    /\ UNCHANGED <<decVars, irrVars, commonVars, facVars>>

NextBCR ==
    \/ BCRatioInit
    \/ BCRatioBcr

\* the inputs of SpecBCR: benefit and cost streams of 1..MaxLen flows from
\* 0..MaxCash, and rates of 0%, 300% and 800% in the rate representation of the
\* object (1 + rate/fract is 1, 4 or 9, whose half powers are rational)
Streams == UNION {[1..k -> {RInt(v) : v \in 0..MaxCash}] : k \in 1..MaxLen}
RateArgs(fractional) ==
    {None} \cup {Some(RInt(x * Fract(fractional))) : x \in {0, 3, 8}}
Conventions == {"end", "mid"}

-----------------------------------------------------------------------------
(* cfCommon, and a compareAlt built from one of the lists it is given *)

\* _horizon(cf): len(v) - 1 for every value of the dict; h is the heap and d
\* the dict
HorizonOf(h, d) == [k \in DOMAIN d |-> Len(h[d[k]]) - 1]

\* _lcm(arr): lcm = lcm * num // gcd(lcm, num) over arr, from lcm = 1
RECURSIVE LcmOf(_)
LcmOf(arr) ==
    IF arr = <<>> THEN 1
    ELSE LET before == LcmOf(SubSeq(arr, 1, Len(arr) - 1))
             num    == arr[Len(arr)]
         IN  (before * num) \div GCD(before, num)

\* list * k: k copies of the list, none when k <= 0
RECURSIVE Repeat(_, _)
Repeat(lst, k) == IF k <= 0 THEN <<>> ELSE lst \o Repeat(lst, k - 1)

\* line 83, on the list object itself: v[-1] = v[0] + v[-1]
FoldTerminal(v) == [v EXCEPT ![Len(v)] = RAdd(v[1], v[Len(v)])]
\* line 84: a new list, v + v[1:] * int(lcm/n - 1)
Broadcast(v, l, h) == v \o Repeat(Tail(v), (l \div h) - 1)
\* line 85, on the new list: v[-1] = v[-1] - v[0]
RestoreTerminal(v) == [v EXCEPT ![Len(v)] = RSub(v[Len(v)], v[1])]

\* no cfCommon call and no list objects exist
NoCfCommon ==
    /\ heap = <<>>
    /\ cash_flows = <<>>
    /\ given = <<>>
    /\ horizon = <<>>
    /\ lcm = 0
    /\ common_i = 0
    /\ common_pc = "none"
    /\ cf_ref = 0
    /\ cf_built = <<>>
    /\ worth = None


\* a call cfCommon(d) is about to start on the list objects of the heap h
CfCommonCall(h, d) ==
    /\ heap = h
    /\ cash_flows = d
    /\ given = [k \in DOMAIN d |-> h[d[k]]]
    /\ horizon = <<>>
    /\ lcm = 0
    /\ common_i = 0
    /\ common_pc = "calling"

\* compareAlt(lst) for the list object id: self.cf is that object
CompareAltOn(id) ==
    /\ cf_ref = id
    /\ cf_built = heap[id]
    /\ CompareAltInit(heap[id], "end", TRUE)
    /\ worth = None

\* lines 72-80: the horizons and their least common multiple
CfCommonStart ==
    /\ common_pc = "calling"
    /\ irr_pc # "ITERATING"
    /\ horizon' = HorizonOf(heap, cash_flows)
    /\ lcm' = LcmOf(HorizonOf(heap, cash_flows))
    /\ common_i' = 1
    /\ common_pc' = "looping"
    /\ UNCHANGED <<heap, cash_flows, given, cf_ref, cf_built, worth>>
    /\ UNCHANGED <<decVars, irrVars, bcrVars, facVars>>

\* lines 82-85: one pass of the loop.  Line 83 writes into the list the key is
\* bound to, line 84 binds the key to a new list, line 85 writes into the new
\* list.  A compareAlt whose self.cf is the first list sees the write of line 83.
CfCommonStep ==
    /\ common_pc = "looping"
    /\ common_i <= Len(cash_flows)
    /\ LET id     == cash_flows[common_i]
           folded == FoldTerminal(heap[id])
           fresh  == Len(heap) + 1
           built  == RestoreTerminal(Broadcast(folded, lcm, horizon[common_i]))
       IN  /\ heap' = Append([heap EXCEPT ![id] = folded], built)
           /\ cash_flows' = [cash_flows EXCEPT ![common_i] = fresh]
           /\ cf' = IF cf_ref = id THEN folded ELSE cf
    /\ common_i' = common_i + 1
    /\ UNCHANGED <<given, horizon, lcm, common_pc, cf_ref, cf_built, worth>>
    /\ UNCHANGED <<eq, irr_args, itr, r, npv, irr_pc, irr_ret, updates>>
    /\ UNCHANGED <<decVars, bcrVars, facVars>>

\* line 87: the loop is exhausted and cfCommon returns the dict it was given
CfCommonReturn ==
    /\ common_pc = "looping"
    /\ common_i > Len(cash_flows)
    /\ common_pc' = "returned"
    /\ UNCHANGED <<heap, cash_flows, given, horizon, lcm, common_i, cf_ref, cf_built, worth>>
    /\ UNCHANGED <<decVars, irrVars, bcrVars, facVars>>

\* equivalence.FgivenP(i, n): 1 / PgivenF(i, n)
FgivenP(e, i, n) == RDiv(RInt(1), PgivenF(e, i, n))
\* equivalence.AgivenF(i, n): (i/fract) / ((1 + i/fract) ** n - 1), the power
\* n - 0.5 under the mid-period convention
AgivenF(e, i, n) ==
    LET rate == RDiv(i, RInt(e.fract))
        base == RAdd(RInt(1), rate)
    IN  RDiv(rate, RSub(RPowHalf(base, IF e.conv = "end" THEN 2 * n ELSE 2 * n - 1),
                        RInt(1)))
\* equivalence.AgivenP(i, n): (1 + i/fract) ** n * AgivenF(i, n)
AgivenP(e, i, n) ==
    RMul(RPowNat(RAdd(RInt(1), RDiv(i, RInt(e.fract))), n), AgivenF(e, i, n))

\* a compareAlt exists and neither cfCommon nor irr() is in the middle of a call
CompareIdle ==
    /\ cf_ref # 0
    /\ common_pc # "looping"
    /\ irr_pc # "ITERATING"

\* a call of npv, euaw or nfw that returns value: it writes nothing but the result
CompareReturn(name, interest, value) ==
    /\ CompareIdle
    /\ worth' = Some([name |-> name, interest |-> interest, value |-> value])
    /\ UNCHANGED <<heap, cash_flows, given, horizon, lcm, common_i, common_pc,
                   cf_ref, cf_built>>
    /\ UNCHANGED <<decVars, irrVars, bcrVars, facVars>>

\* compareAlt.npv(interest)
CompareNpv(interest) ==
    CompareReturn("npv", interest, npvOf(eq, cf, interest))
\* compareAlt.euaw(interest): npv(interest) * AgivenP(interest, len(cf))
CompareEuaw(interest) ==
    CompareReturn("euaw", interest,
                  RMul(npvOf(eq, cf, interest), AgivenP(eq, interest, Len(cf))))
\* compareAlt.nfw(interest): npv(interest) * FgivenP(interest, len(cf))
CompareNfw(interest) ==
    CompareReturn("nfw", interest,
                  RMul(npvOf(eq, cf, interest), FgivenP(eq, interest, Len(cf))))

\* the steps of compareAlt.irr(), outside a cfCommon call
CompareIrr ==
    /\ cf_ref # 0
    /\ common_pc # "looping"
    /\ \/ IrrStart
       \/ IrrCap
       \/ IrrNewton
       \/ IrrReturn

\* the inputs of SpecCommon: two list objects of 2..MaxLen flows, each flow an
\* outlay or an income of MaxCash, a dict of one key or of two keys bound to
\* different lists or to the same list, and the rate of the worth calls (100%)
SeriesValues == {RInt(0 - MaxCash), RInt(MaxCash)}
Series == UNION {[1..k -> SeriesValues] : k \in 2..MaxLen}
Dicts == {<<1>>, <<1, 2>>, <<1, 1>>}
WorthRates == {RInt(1)}

NextCommon ==
    \/ CfCommonStart
    \/ CfCommonStep
    \/ CfCommonReturn
    \/ \E interest \in WorthRates : CompareNpv(interest)
    \/ \E interest \in WorthRates : CompareEuaw(interest)
    \/ \E interest \in WorthRates : CompareNfw(interest)
    \/ CompareIrr

-----------------------------------------------------------------------------
(* The equivalence factors.  n is an int or a float in the source; here a   *)
(* factor takes h, the number of half periods, and is the source's factor   *)
(* at n = h/2.  The interest rates are positive, so that no factor divides  *)
(* by zero.                                                                 *)

\* 1.0 + i/self.fract
Base(e, i) == RAdd(RInt(1), RDiv(i, RInt(e.fract)))
\* the half periods the mid-period branches compute with: n - 0.5
MidPeriods(h) == h - 1

\* PgivenF(i, n): (1 + i/fract) ** -n, n - 0.5 for n under 'mid'
PgivenFH(e, i, h) ==
    IF e.conv = "end" THEN RPowHalf(Base(e, i), 0 - h)
    ELSE RPowHalf(Base(e, i), 0 - MidPeriods(h))

\* FgivenP(i, n): 1 / PgivenF(i, n)
FgivenPH(e, i, h) == RDiv(RInt(1), PgivenFH(e, i, h))

\* the expression of lines 94 and 97, i already divided by fract:
\* ((1+i)**n - 1) / (i**2 * (1+i)**n) - n / (i * (1+i)**n)
PgivenGExpr(i, h) ==
    LET grown == RPowHalf(RAdd(RInt(1), i), h)
    IN  RSub(RDiv(RSub(grown, RInt(1)), RMul(RMul(i, i), grown)),
             RDiv(Rat(h, 2), RMul(i, grown)))
\* PgivenG(i, n): the 'mid' branch sets n = n - 0.5 first
PgivenGH(e, i, h) ==
    IF e.conv = "end" THEN PgivenGExpr(RDiv(i, RInt(e.fract)), h)
    ELSE PgivenGExpr(RDiv(i, RInt(e.fract)), MidPeriods(h))

\* the expression of lines 106 and 109: 1.0/i - n / ((1+i)**n - 1)
AgivenGExpr(i, h) ==
    RSub(RDiv(RInt(1), i),
         RDiv(Rat(h, 2), RSub(RPowHalf(RAdd(RInt(1), i), h), RInt(1))))
\* AgivenG(i, n): the 'mid' branch sets n = n - 0.5 first
AgivenGH(e, i, h) ==
    IF e.conv = "end" THEN AgivenGExpr(RDiv(i, RInt(e.fract)), h)
    ELSE AgivenGExpr(RDiv(i, RInt(e.fract)), MidPeriods(h))

\* FgivenG(i, n): (1 + i/fract) ** n * PgivenG(i, n), the power n under both
\* conventions
FgivenGH(e, i, h) == RMul(RPowHalf(Base(e, i), h), PgivenGH(e, i, h))

\* the expression of lines 135-138 and 141-144, i and g already divided by
\* fract: n/(1+i) when i == g, else (1 - (1+g)**n * (1+i)**-n) / (i - g)
PgivengExpr(i, g, h) ==
    IF i = g THEN RDiv(Rat(h, 2), RAdd(RInt(1), i))
    ELSE RDiv(RSub(RInt(1), RMul(RPowHalf(RAdd(RInt(1), g), h),
                                 RPowHalf(RAdd(RInt(1), i), 0 - h))),
              RSub(i, g))
\* Pgiveng(i, g, n): the 'mid' branch sets n = n - 0.5 first
PgivengH(e, i, g, h) ==
    IF e.conv = "end"
    THEN PgivengExpr(RDiv(i, RInt(e.fract)), RDiv(g, RInt(e.fract)), h)
    ELSE PgivengExpr(RDiv(i, RInt(e.fract)), RDiv(g, RInt(e.fract)), MidPeriods(h))

\* no equivalence factor is being called
NoFactor ==
    /\ fac_args = <<>>
    /\ fac_ret = None

\* equivalence(convention, fractional), and the arguments i, g and n of the
\* factor calls made on it
FactorInit(convention, fractional, i, g, n) ==
    /\ fac_args = [conv |-> convention, fract |-> Fract(fractional),
                   i |-> i, g |-> g, n |-> n]
    /\ fac_ret = None

\* the equivalence object of the calls
FactorEq == [conv |-> fac_args.conv, fract |-> fac_args.fract]
\* a factor call that returns value
FactorReturn(name, value) ==
    /\ fac_args # <<>>
    /\ fac_ret' = Some([name |-> name, value |-> value])
    /\ UNCHANGED fac_args
    /\ UNCHANGED <<decVars, irrVars, bcrVars, commonVars>>

CallPgivenF == FactorReturn("PgivenF", PgivenFH(FactorEq, fac_args.i, 2 * fac_args.n))
CallFgivenP == FactorReturn("FgivenP", FgivenPH(FactorEq, fac_args.i, 2 * fac_args.n))
CallPgivenG == FactorReturn("PgivenG", PgivenGH(FactorEq, fac_args.i, 2 * fac_args.n))
CallAgivenG == FactorReturn("AgivenG", AgivenGH(FactorEq, fac_args.i, 2 * fac_args.n))
CallFgivenG == FactorReturn("FgivenG", FgivenGH(FactorEq, fac_args.i, 2 * fac_args.n))
CallPgiveng ==
    FactorReturn("Pgiveng", PgivengH(FactorEq, fac_args.i, fac_args.g, 2 * fac_args.n))

NextFactor ==
    \/ CallPgivenF
    \/ CallFgivenP
    \/ CallPgivenG
    \/ CallAgivenG
    \/ CallFgivenG
    \/ CallPgiveng

\* the inputs of SpecFactor: interest rates of 300% and 800% and gradients of
\* 0%, 300% and 800% in the rate representation of the object (1 + i/fract and
\* 1 + g/fract are 1, 4 or 9, whose half powers are rational)
FactorRates(fractional) == {RInt(x * Fract(fractional)) : x \in {3, 8}}
FactorGradients(fractional) == {RInt(x * Fract(fractional)) : x \in {0, 3, 8}}

-----------------------------------------------------------------------------
(* Specifications *)

\* Decision(grid) with the default criteria, with and without an unknown name
\* after them, for every grid
Init ==
    /\ \E grid \in Grids : \E cl \in DefaultLists : DecisionInit(grid, cl)
    /\ NoCompareAlt
    /\ NoBCRatio
    /\ NoCfCommon
    /\ NoFactor
Spec == Init /\ [][NextFit]_vars

\* Decision(grid, criteria) for every criteria list, known names or not
InitCrit ==
    /\ \E grid \in Grids : \E cl \in CritLists : DecisionInit(grid, cl)
    /\ NoCompareAlt
    /\ NoBCRatio
    /\ NoCfCommon
    /\ NoFactor
SpecCrit == InitCrit /\ [][NextFit]_vars

\* compareAlt(cash_flow).irr(guess, max_iter, threshold), the convention and
\* the rate representation the defaults ('end', fractional): the iterates of
\* the other ones leave the exact numbers the model computes on
InitIrr ==
    /\ NoDecision
    /\ \E flows \in CashFlows : CompareAltInit(flows, "end", TRUE)
    /\ \E g \in Guesses : \E mi \in 0..MaxIter : \E th \in Thresholds :
           IrrCall(g, mi, th)
    /\ NoBCRatio
    /\ NoCfCommon
    /\ NoFactor
SpecIrr == InitIrr /\ [][NextIrr]_vars

\* BCRatio(...) for every combination of arguments, then bcr()
InitBCR ==
    /\ NoDecision
    /\ NoCompareAlt
    /\ \E b \in Streams, c \in Streams, cv \in Conventions, f \in BOOLEAN :
           \E x \in RateArgs(f), y \in RateArgs(f), z \in RateArgs(f) :
               BCRatioCall([benefit |-> b, cost |-> c, rate |-> x, ben_rate |-> y,
                            cost_rate |-> z, convention |-> cv, fractional |-> f])
    /\ NoCfCommon
    /\ NoFactor
SpecBCR == InitBCR /\ [][NextBCR]_vars

\* cfCommon(d) on two list objects, with a compareAlt built from one of them
\* beforehand; the compareAlt's npv, euaw, nfw and irr run before, between
\* and after the steps of no other call
InitCommon ==
    /\ NoDecision
    /\ NoBCRatio
    /\ NoFactor
    /\ \E a \in Series, b \in Series : \E d \in Dicts : CfCommonCall(<<a, b>>, d)
    /\ \E id \in 1..2 : CompareAltOn(id)
    /\ IrrCall(Some(RInt(1)), 1, Rat(1, 2))
SpecCommon == InitCommon /\ [][NextCommon]_vars

\* equivalence(convention, fractional) and calls of its single-cash-flow and
\* gradient factors with (i, n) and (i, g, n), n a whole number of periods
InitFactor ==
    /\ NoDecision
    /\ NoCompareAlt
    /\ NoBCRatio
    /\ NoCfCommon
    /\ \E cv \in Conventions, f \in BOOLEAN, n \in 1..MaxPeriods :
           \E i \in FactorRates(f), g \in FactorGradients(f) :
               FactorInit(cv, f, i, g, n)
SpecFactor == InitFactor /\ [][NextFactor]_vars

-----------------------------------------------------------------------------
(* Properties of Decision.fit *)

\* fit() has ended, by returning or by raising
FitEnded == fit_pc \in {"returned", "ValueError", "AttributeError"}
\* the names the criteria list requests
Requested == Range(crit)
\* the expected value of the alternative at row a
ExpectedValue(a) == RSum([j \in DOMAIN prob |-> RMul(payoff[a][j], prob[j])])
\* the best and the worst payoff of the alternative at row a
RowBest(a) == CHOOSE x \in Range(payoff[a]) : \A y \in Range(payoff[a]) : RLe(y, x)
RowWorst(a) == CHOOSE x \in Range(payoff[a]) : \A y \in Range(payoff[a]) : RLe(x, y)

\* C1: for every non-empty list of supported criterion names, fit() on a fresh
\* Decision raises nothing, and once it has returned results_ holds an entry
\* for exactly the requested names.
C1_FitCompletes ==
    (crit # <<>> /\ Requested \subseteq Supported) =>
        /\ fit_pc \notin {"ValueError", "AttributeError"}
        /\ (fit_pc = "returned" => DOMAIN results_ = Requested)

\* C2: after fit() with 'ev' requested, the payoff stored under 'ev' is the
\* expected value of the alternative stored under 'ev', and that is the
\* largest expected value of all alternatives.
C2_EvPayoff ==
    (fit_pc = "returned" /\ "ev" \in DOMAIN results_) =>
        \E a \in DOMAIN payoff :
            /\ results_["ev"][1] = alts[a]
            /\ results_["ev"][2] = ExpectedValue(a)
            /\ \A b \in DOMAIN payoff : RLe(ExpectedValue(b), ExpectedValue(a))

\* C3: when the criteria list holds a name fit() does not know, fit() ends by
\* raising ValueError at the first such name, and results_ then holds an entry
\* for exactly the names before it.
C3_UnknownRaises ==
    LET bad == {k \in DOMAIN crit : crit[k] \notin Supported}
    IN  (bad # {} /\ FitEnded) =>
            LET k == CHOOSE x \in bad : \A y \in bad : x <= y
            IN  /\ fit_pc = "ValueError"
                /\ fit_i = k
                /\ DOMAIN results_ = {crit[j] : j \in 1..(k - 1)}

\* C10: the entry of 'maxmax' is the first alternative whose best payoff is the
\* largest best payoff, with that payoff; the entry of 'maxmin' is the first
\* alternative whose worst payoff is the largest worst payoff, with that payoff.
C10_FirstOnTies ==
    /\ "maxmax" \in DOMAIN results_ =>
           \E a \in DOMAIN payoff :
               /\ results_["maxmax"] = <<alts[a], RowBest(a)>>
               /\ \A b \in DOMAIN payoff : RLe(RowBest(b), RowBest(a))
               /\ \A b \in DOMAIN payoff : b < a => RLt(RowBest(b), RowBest(a))
    /\ "maxmin" \in DOMAIN results_ =>
           \E a \in DOMAIN payoff :
               /\ results_["maxmin"] = <<alts[a], RowWorst(a)>>
               /\ \A b \in DOMAIN payoff : RLe(RowWorst(b), RowWorst(a))
               /\ \A b \in DOMAIN payoff : b < a => RLt(RowWorst(b), RowWorst(a))

\* C10 witness: fit() has returned both entries for a matrix in which a later
\* alternative ties the first one on the best payoff, and a later alternative
\* ties an earlier one on the largest worst payoff.
C10_Witness ==
    /\ fit_pc = "returned"
    /\ {"maxmax", "maxmin"} \subseteq DOMAIN results_
    /\ \E a, b \in DOMAIN payoff :
           /\ a < b
           /\ RowBest(a) = RowBest(b)
           /\ results_["maxmax"] = <<alts[a], RowBest(a)>>
           /\ payoff[a] # payoff[b]
    /\ \E a, b \in DOMAIN payoff :
           /\ a < b
           /\ RowWorst(a) = RowWorst(b)
           /\ results_["maxmin"] = <<alts[a], RowWorst(a)>>

\* C11: when results_ holds both 'maxmin' and 'maxmax', the payoff stored under
\* 'maxmin' is less than or equal to the payoff stored under 'maxmax'.
C11_MaxminBelowMaxmax ==
    {"maxmin", "maxmax"} \subseteq DOMAIN results_ =>
        RLe(results_["maxmin"][2], results_["maxmax"][2])

\* C11 witness: fit() has returned both entries, the two payoffs differ, and
\* the two criteria choose different alternatives.
C11_Witness ==
    /\ fit_pc = "returned"
    /\ {"maxmin", "maxmax"} \subseteq DOMAIN results_
    /\ RLt(results_["maxmin"][2], results_["maxmax"][2])
    /\ results_["maxmin"][1] # results_["maxmax"][1]

\* the best payoff of state j over the alternatives
ColBest(j) ==
    CHOOSE x \in {payoff[a][j] : a \in DOMAIN payoff} :
        \A a \in DOMAIN payoff : RLe(payoff[a][j], x)
\* the regret of the alternative at row a in state j
Regret(a, j) == RSub(ColBest(j), payoff[a][j])
\* the worst-case regret of the alternative at row a
WorstRegret(a) ==
    CHOOSE x \in {Regret(a, j) : j \in DOMAIN payoff[a]} :
        \A j \in DOMAIN payoff[a] : RLe(Regret(a, j), x)

\* C12: once 'regret' is stored, the regret matrix is the column maximum minus
\* the cell for every cell, the stored payoff is the worst-case regret of the
\* stored alternative, and no alternative has a smaller worst-case regret.
C12_MinmaxRegret ==
    "regret" \in DOMAIN results_ =>
        /\ \A a \in DOMAIN payoff : \A j \in DOMAIN payoff[a] :
               attrs["regret_"][a][j] = Regret(a, j)
        /\ \E a \in DOMAIN payoff :
               /\ results_["regret"] = <<alts[a], WorstRegret(a)>>
               /\ \A b \in DOMAIN payoff : RLe(WorstRegret(a), WorstRegret(b))

\* C12 witness: fit() has returned the 'regret' entry, its alternative is not
\* the first one, its worst-case regret is positive and another alternative
\* has a larger one.
C12_Witness ==
    /\ fit_pc = "returned"
    /\ "regret" \in DOMAIN results_
    /\ \E a, b \in DOMAIN payoff :
           /\ a > 1
           /\ results_["regret"] = <<alts[a], WorstRegret(a)>>
           /\ RLt(RZero, WorstRegret(a))
           /\ RLt(WorstRegret(a), WorstRegret(b))

\* C13: the alternative stored as the 'ev' decision, in results_ and in
\* ev_dec_, has an expected value greater than or equal to that of every
\* other alternative.
C13_EvDecision ==
    /\ "ev" \in DOMAIN results_ =>
           \E a \in DOMAIN payoff :
               /\ results_["ev"][1] = alts[a]
               /\ \A b \in DOMAIN payoff : RLe(ExpectedValue(b), ExpectedValue(a))
    /\ "ev_dec_" \in DOMAIN attrs =>
           \E a \in DOMAIN payoff :
               /\ attrs["ev_dec_"] = alts[a]
               /\ \A b \in DOMAIN payoff : RLe(ExpectedValue(b), ExpectedValue(a))

\* C13 witness: fit() has returned the 'ev' entry, its alternative is not the
\* first one and not the one 'maxmax' chooses, and another alternative has a
\* smaller expected value.
C13_Witness ==
    /\ fit_pc = "returned"
    /\ {"ev", "maxmax"} \subseteq DOMAIN results_
    /\ results_["ev"][1] # results_["maxmax"][1]
    /\ \E a, b \in DOMAIN payoff :
           /\ a > 1
           /\ results_["ev"][1] = alts[a]
           /\ RLt(ExpectedValue(b), ExpectedValue(a))

\* the first state, in column order, whose probability is the largest
LikelyState ==
    CHOOSE j \in DOMAIN prob :
        /\ \A k \in DOMAIN prob : RLe(prob[k], prob[j])
        /\ \A k \in DOMAIN prob : k < j => RLt(prob[k], prob[j])

\* C14: the entry of 'maxlik' is the first alternative with the largest payoff
\* in the column of the first most likely state, with that payoff; it is a
\* function of that column alone.
C14_MaxlikColumn ==
    "maxlik" \in DOMAIN results_ =>
        \E a \in DOMAIN payoff :
            /\ results_["maxlik"] = <<alts[a], payoff[a][LikelyState]>>
            /\ \A b \in DOMAIN payoff :
                   RLe(payoff[b][LikelyState], payoff[a][LikelyState])
            /\ \A b \in DOMAIN payoff :
                   b < a => RLt(payoff[b][LikelyState], payoff[a][LikelyState])

\* C14 witness: fit() has returned the 'maxlik' entry for probabilities that
\* tie on the maximum, with a payoff outside the chosen column that is larger
\* than every payoff in it, and two alternatives tying in the chosen column.
C14_Witness ==
    /\ fit_pc = "returned"
    /\ "maxlik" \in DOMAIN results_
    /\ \E k \in DOMAIN prob : k # LikelyState /\ prob[k] = prob[LikelyState]
    /\ \E b \in DOMAIN payoff : \E k \in DOMAIN prob :
           /\ k # LikelyState
           /\ RLt(results_["maxlik"][2], payoff[b][k])
    /\ \E a, b \in DOMAIN payoff :
           /\ a < b
           /\ payoff[a][LikelyState] = payoff[b][LikelyState]
           /\ results_["maxlik"] = <<alts[a], payoff[a][LikelyState]>>

-----------------------------------------------------------------------------
(* Properties of compareAlt.irr *)

\* irr() has ended, by returning or by raising
IrrEnded == irr_pc \notin {"none", "INITIAL", "ITERATING"}

\* C4: when the iteration count exceeds max_iter, irr() ends in DIVERGED and
\* what it reports carries the last rate estimate.
C4_CapDiverges ==
    (IrrEnded /\ itr > irr_args.max_iter) =>
        /\ irr_pc = "DIVERGED"
        /\ irr_ret = r

\* C5: when irr() returns a rate through the converged path, the present worth
\* of the series at the returned rate is defined and its absolute value is at
\* most the threshold.
C5_RoundTrip ==
    irr_pc = "CONVERGED" =>
        /\ ~ npvRaises(eq, cf, irr_ret[1])
        /\ RLe(RAbs(npvOf(eq, cf, irr_ret[1])), irr_args.threshold)

\* C6: a call of irr() whose arithmetic is defined ends in CONVERGED or in
\* DIVERGED, and makes at most max_iter Newton updates.  (The claim covers
\* every call; this is the claim for the calls that divide by no zero.)
C6_TwoOutcomes ==
    /\ (IrrEnded /\ irr_pc # "ZeroDivisionError") => irr_pc \in {"CONVERGED", "DIVERGED"}
    /\ irr_pc # "none" => updates <= irr_args.max_iter

-----------------------------------------------------------------------------
(* Properties of BCRatio *)

\* __init__ has ended, by returning or by raising
BCRatioEnded == bcr_pc \notin {"none", "calling"}
\* the present worth of a stream at a rate, under the arguments' convention
WorthAt(flows, rate) ==
    npvOf([conv |-> bcr_args.convention, fract |-> Fract(bcr_args.fractional)],
          flows, rate)

\* every rate argument that is given is not zero
NonzeroRates ==
    \A x \in {bcr_args.rate, bcr_args.ben_rate, bcr_args.cost_rate} :
        x # None => x[1] # RZero

\* C7: BCRatio with a shared rate and a ben_rate, a cost_rate or both raises
\* nothing, warns once, and stores the shared rate for both streams.  (The
\* claim covers every rate; this is the claim for the rates that are not zero.)
C7_SharedOverrides ==
    (/\ BCRatioEnded
     /\ NonzeroRates
     /\ bcr_args.rate # None
     /\ (bcr_args.ben_rate # None \/ bcr_args.cost_rate # None)) =>
        /\ bcr_pc # "ValueError"
        /\ warned = 1
        /\ bc.ben_rate = bcr_args.rate
        /\ bc.cost_rate = bcr_args.rate

\* C8: without a shared rate, BCRatio raises ValueError exactly when one of
\* ben_rate and cost_rate is given and the other is not, and with both given
\* it stores ben_rate for the benefits and cost_rate for the costs.
C8_BothOrNeither ==
    (BCRatioEnded /\ bcr_args.rate = None) =>
        /\ (bcr_pc = "ValueError") <=>
               ((bcr_args.ben_rate = None) # (bcr_args.cost_rate = None))
        /\ (bcr_args.ben_rate # None /\ bcr_args.cost_rate # None) =>
               /\ bc.ben_rate = bcr_args.ben_rate
               /\ bc.cost_rate = bcr_args.cost_rate

\* C9: BCRatio with only a shared rate, zero included, stores that rate for
\* both streams, bcr() raises no TypeError, and what bcr() returns is the
\* benefits' present worth at that rate over the costs' present worth at it.
C9_SharedRate ==
    (/\ BCRatioEnded
     /\ bcr_args.rate # None
     /\ bcr_args.ben_rate = None
     /\ bcr_args.cost_rate = None) =>
        /\ bcr_pc \notin {"ValueError", "TypeError"}
        /\ bc.ben_rate = bcr_args.rate
        /\ bc.cost_rate = bcr_args.rate
        /\ bcr_pc = "returned" =>
               bcr_ret = Some(RDiv(WorthAt(bcr_args.benefit, bcr_args.rate[1]),
                                   WorthAt(bcr_args.cost, bcr_args.rate[1])))

-----------------------------------------------------------------------------
(* Properties of cfCommon *)

\* the least positive number every horizon of the given series divides
CommonHorizon ==
    LET hs == {Len(given[k]) - 1 : k \in DOMAIN given}
    IN  CHOOSE m \in 1..(MaxLen * MaxLen) :
            /\ \A h \in hs : m % h = 0
            /\ \A l \in 1..(m - 1) : \E h \in hs : l % h # 0
\* the non-initial portion of s with last in the place of its terminal value
Cycle(s, last) == SubSeq(s, 2, Len(s) - 1) \o <<last>>
\* k cycles of s that each end in initial + terminal
RECURSIVE Renewals(_, _)
Renewals(s, k) ==
    IF k = 0 THEN <<>>
    ELSE Cycle(s, RAdd(s[1], s[Len(s)])) \o Renewals(s, k - 1)
\* the series over the common horizon: the initial value, the renewed cycles,
\* and a final cycle that ends in the terminal value
Reconciled(s) ==
    <<s[1]>> \o Renewals(s, CommonHorizon \div (Len(s) - 1) - 1) \o Cycle(s, s[Len(s)])

\* C15: cfCommon returns a mapping with the same keys in which the series of
\* every key has length LCM(horizons) + 1 and is the given initial value, then
\* LCM/horizon repetitions of the given non-initial portion, each ending in
\* initial + terminal but the last, which ends in the given terminal value.
C15_CommonHorizon ==
    common_pc = "returned" =>
        /\ DOMAIN cash_flows = DOMAIN given
        /\ \A k \in DOMAIN given :
               /\ Len(heap[cash_flows[k]]) = CommonHorizon + 1
               /\ heap[cash_flows[k]] = Reconciled(given[k])

\* C16: once a compareAlt is built from a series, the series it holds and the
\* present worth it reports at a rate stay what they were when it was built.
C16_OwnsSeries ==
    cf_ref # 0 =>
        /\ cf = cf_built
        /\ \A interest \in WorthRates :
               npvOf(eq, cf, interest) = npvOf(eq, cf_built, interest)

-----------------------------------------------------------------------------
(* Properties of the equivalence factors *)

\* the equivalence object of the calls under the end-of-period convention
EndEq == [conv |-> "end", fract |-> fac_args.fract]
\* what the end-of-period convention returns for the factor name at
\* (i, n - 0.5), or at (i, g, n - 0.5)
EndAtHalfLess(name) ==
    LET h == 2 * fac_args.n - 1
    IN  CASE name = "PgivenF" -> PgivenFH(EndEq, fac_args.i, h)
          [] name = "FgivenP" -> FgivenPH(EndEq, fac_args.i, h)
          [] name = "PgivenG" -> PgivenGH(EndEq, fac_args.i, h)
          [] name = "AgivenG" -> AgivenGH(EndEq, fac_args.i, h)
          [] name = "FgivenG" -> FgivenGH(EndEq, fac_args.i, h)
          [] name = "Pgiveng" -> PgivengH(EndEq, fac_args.i, fac_args.g, h)

\* C17: under the mid-period convention, each of PgivenF, FgivenP, PgivenG,
\* AgivenG, FgivenG and Pgiveng called with n returns what the end-of-period
\* convention returns for n - 0.5.
C17_MidIsEndHalfLess ==
    (fac_ret # None /\ fac_args.conv = "mid") =>
        fac_ret[1].value = EndAtHalfLess(fac_ret[1].name)

====
